---------------------------- MODULE Spec2Model ----------------------------
(***************************************************************************)
(* Embedding provider abstraction of memento-mcp: the provider registry    *)
(* and environment resolver (EmbeddingServiceFactory), the OpenRouter      *)
(* backend (OpenRouterEmbeddingService) and the Ollama backend             *)
(* (OllamaEmbeddingService).                                               *)
(*                                                                         *)
(* Four specifications share the variables below:                          *)
(*   SpecResolver    process.env and createFromEnvironment                 *)
(*   SpecRegistry    registerProvider / resetRegistry / createService      *)
(*   SpecOllama      one OllamaEmbeddingService instance and its calls     *)
(*   SpecOpenRouter  one OpenRouterEmbeddingService instance and its calls *)
(***************************************************************************)
EXTENDS Integers, Sequences, FiniteSets, TLC

VARIABLES
    env,        \* process.env: variable name -> string, undefined when unset
    outcome,    \* what the last createFromEnvironment call did
    providers,  \* EmbeddingServiceFactory.providers: own keys -> provider fn
    regLog,     \* history: registrations since the last resetRegistry
    created,    \* what the last createService / getAvailableProviders call did
    svc,        \* the backend instance under test (its private fields)
    calls,      \* generateEmbedding calls suspended at `await axios.post`:
                \* per call, the texts of the requests it has sent
    batch,      \* the generateEmbeddings call in progress, if any
    last,       \* what the most recently completed call did
    hist        \* history: the first valid response generateEmbedding saw

vars == <<env, outcome, providers, regLog, created, svc, calls, batch, last, hist>>

-----------------------------------------------------------------------------
(* JavaScript values *)

\* The JavaScript value `undefined` (an unset variable, a missing field).
undefined == "<undefined>"

\* ToBoolean on a string-or-undefined: `x || y`, `if (x)`, `!!x`.
Truthy(x) == x # undefined /\ x # ""

\* `a || b` on strings.
Or(a, b) == IF Truthy(a) THEN a ELSE b

\* `a || b` on numbers; 0 stands for both 0 and undefined, which `||` treats alike.
OrNum(a, b) == IF a # 0 THEN a ELSE b

\* String.prototype.toLowerCase on the strings the model uses.
toLowerCase(s) ==
    CASE s = "MOCK"       -> "mock"
      [] s = "Custom"     -> "custom"
      [] s = "CUSTOM"     -> "custom"
      [] s = "Default"    -> "default"
      [] s = "OpenRouter" -> "openrouter"
      [] OTHER            -> s

\* `x?.toLowerCase()`
OptLower(x) == IF x = undefined THEN undefined ELSE toLowerCase(x)

-----------------------------------------------------------------------------
(* Backend instances *)

\* A value of no service (nothing returned).
NoService ==
    [kind |-> "none", apiKey |-> undefined, baseUrl |-> undefined,
     model |-> undefined, dimensions |-> 0, timeout |-> 0,
     siteUrl |-> undefined, siteName |-> undefined,
     dimensionsDetected |-> FALSE, madeBy |-> undefined]

\* An EmbeddingServiceConfig with every option unset.
EmptyConfig ==
    [provider |-> undefined, model |-> undefined, dimensions |-> 0,
     apiKey |-> undefined, baseUrl |-> undefined, timeout |-> 0,
     siteUrl |-> undefined, siteName |-> undefined]

\* The result of evaluating `new X(config)`: an instance or a thrown error.
Made(s)   == [ok |-> TRUE,  service |-> s,         error |-> undefined]
Threw(e)  == [ok |-> FALSE, service |-> NoService, error |-> e]

\* The provider keys whose constructors reach code outside this unit
\* (the EmbeddingService base constructor, the logger) that may throw.
Kinds == {"ollama", "openrouter", "openai"}

\* OpenRouterEmbeddingService._getDefaultDimensions
_getDefaultDimensions(model) ==
    CASE model = "openai/text-embedding-3-small"  -> 1536
      [] model = "openai/text-embedding-3-large"  -> 3072
      [] model = "openai/text-embedding-ada-002"  -> 1536
      [] model = "cohere/embed-english-v3.0"      -> 1024
      [] model = "cohere/embed-multilingual-v3.0" -> 1024
      [] model = "voyage/voyage-2"                -> 1024
      [] model = "voyage/voyage-large-2"          -> 1536
      [] OTHER                                    -> 1536

\* String.prototype.endsWith('/') and slice(0, -1) on the URLs the model uses.
StripTrailingSlash(url) ==
    CASE url = "http://h/" -> "http://h"
      [] url = "http://g/" -> "http://g"
      [] OTHER             -> url

\* A faulty variant: without an API key the instance is built all the same,
\* with an empty key.
OpenRouterEmbeddingServiceKeyless(config, e, fails) ==
    LET model == Or(Or(config.model, e["OPENROUTER_EMBEDDING_MODEL"]),
                    "openai/text-embedding-3-small")
    IN  IF "openrouter" \in fails THEN Threw("openrouter: constructor threw")
        ELSE Made([NoService EXCEPT
                 !.kind = "OpenRouter",
                 !.apiKey = Or(Or(config.apiKey, e["OPENROUTER_API_KEY"]), ""),
                 !.model = model,
                 !.dimensions = OrNum(config.dimensions, _getDefaultDimensions(model)),
                 !.timeout = OrNum(config.timeout, 30000),
                 !.siteUrl = Or(Or(config.siteUrl, e["OPENROUTER_SITE_URL"]), ""),
                 !.siteName = Or(Or(config.siteName, e["OPENROUTER_SITE_NAME"]), "memento-mcp")])

\* new OpenRouterEmbeddingService(config), under environment e; `fails` is the
\* set of kinds whose base constructor or logger throws.
OpenRouterEmbeddingService(config, e, fails) ==
    LET apiKey == Or(Or(config.apiKey, e["OPENROUTER_API_KEY"]), "")
        model  == Or(Or(config.model, e["OPENROUTER_EMBEDDING_MODEL"]),
                     "openai/text-embedding-3-small")
    IN  IF "openrouter" \in fails THEN Threw("openrouter: constructor threw")
        ELSE IF ~Truthy(apiKey)
        THEN Threw("OpenRouter API key is required. Set OPENROUTER_API_KEY environment variable.")
        ELSE Made([NoService EXCEPT
                 !.kind = "OpenRouter",
                 !.apiKey = apiKey,
                 !.model = model,
                 !.dimensions = OrNum(config.dimensions, _getDefaultDimensions(model)),
                 !.timeout = OrNum(config.timeout, 30000),
                 !.siteUrl = Or(Or(config.siteUrl, e["OPENROUTER_SITE_URL"]), ""),
                 !.siteName = Or(Or(config.siteName, e["OPENROUTER_SITE_NAME"]), "memento-mcp")])

\* new OllamaEmbeddingService(config)
OllamaEmbeddingService(config, e, fails) ==
    IF "ollama" \in fails THEN Threw("ollama: constructor threw")
    ELSE Made([NoService EXCEPT
             !.kind = "Ollama",
             !.baseUrl = StripTrailingSlash(
                 Or(Or(config.baseUrl, e["OLLAMA_BASE_URL"]), "http://localhost:11434")),
             !.model = Or(Or(config.model, e["OLLAMA_EMBEDDING_MODEL"]), "nomic-embed-text"),
             !.dimensions = OrNum(config.dimensions, 768),
             !.timeout = OrNum(config.timeout, 30000),
             !.dimensionsDetected = FALSE])

\* new OpenAIEmbeddingService(config): a mandatory credential, else it throws.
OpenAIEmbeddingService(config, e, fails) ==
    IF "openai" \in fails THEN Threw("openai: constructor threw")
    ELSE IF ~Truthy(config.apiKey)
    THEN Threw("API key is required for OpenAI embeddings")
    ELSE Made([NoService EXCEPT
             !.kind = "OpenAI",
             !.apiKey = config.apiKey,
             !.model = Or(config.model, "text-embedding-3-small"),
             !.dimensions = OrNum(config.dimensions, 1536)])

\* new DefaultEmbeddingService(dimensions): the Mock backend; it never throws.
DefaultEmbeddingService(dimensions) ==
    Made([NoService EXCEPT
             !.kind = "Default",
             !.model = "memento-mcp-mock",
             !.dimensions = OrNum(dimensions, 1536)])

-----------------------------------------------------------------------------
(* EmbeddingServiceFactory.createFromEnvironment *)

\* The environment variables the factory and the constructors read.
EnvNames ==
    {"MOCK_EMBEDDINGS", "EMBEDDING_PROVIDER", "OLLAMA_BASE_URL",
     "OPENROUTER_API_KEY", "OPENAI_API_KEY",
     "OLLAMA_EMBEDDING_MODEL", "OPENROUTER_EMBEDDING_MODEL",
     "OPENAI_EMBEDDING_MODEL", "OPENROUTER_SITE_URL", "OPENROUTER_SITE_NAME"}

\* The values the resolver's variables are driven through.
EnvValues(name) ==
    CASE name = "MOCK_EMBEDDINGS"    -> {undefined, "true", "false"}
      [] name = "EMBEDDING_PROVIDER" ->
            {undefined, "", "mock", "MOCK", "ollama", "OpenRouter", "openai",
             "default", "custom", "Custom"}
      [] name = "OLLAMA_BASE_URL"    -> {undefined, "http://h/"}
      [] name = "OPENROUTER_API_KEY" -> {undefined, "or-key"}
      [] name = "OPENAI_API_KEY"     -> {undefined, "oa-key"}
      [] OTHER                       -> {undefined}

EmptyEnv == [n \in EnvNames |-> undefined]

\* A call's record: the backend returned or the error thrown, and the
\* constructors it ran, in order.
Returned(r, tried) ==
    [status |-> "returned", service |-> r.service, error |-> undefined,
     attempts |-> tried]
Thrown(r, tried) ==
    [status |-> "threw", service |-> NoService, error |-> r.error,
     attempts |-> tried]
Finish(r, tried) == IF r.ok THEN Returned(r, tried) ELSE Thrown(r, tried)

\* A faulty variant: an explicit provider that cannot be built falls back
\* to the default service, and "mock" is not a name it knows.
ExplicitProviderFallsBack(provider, e, fails) ==
    LET r == CASE provider = "ollama" ->
                    OllamaEmbeddingService(
                        [EmptyConfig EXCEPT !.baseUrl = e["OLLAMA_BASE_URL"]], e, fails)
               [] provider = "openrouter" ->
                    OpenRouterEmbeddingService(
                        [EmptyConfig EXCEPT !.apiKey = e["OPENROUTER_API_KEY"]], e, fails)
               [] provider = "openai" ->
                    OpenAIEmbeddingService(
                        [EmptyConfig EXCEPT !.apiKey = Or(e["OPENAI_API_KEY"], "")], e, fails)
               [] provider = "default" -> DefaultEmbeddingService(0)
               [] OTHER -> Threw("Unknown provider")
    IN  IF r.ok \/ provider \notin Kinds THEN Finish(r, <<"explicit">>)
        ELSE Finish(DefaultEmbeddingService(0), <<"explicit", "Default">>)

\* A faulty variant: a name that is none of the known ones is an error, as
\* it is for createService.
ExplicitProviderRejectsUnknown(provider, e, fails) ==
    CASE provider = "ollama" ->
            Finish(OllamaEmbeddingService(
                       [EmptyConfig EXCEPT !.baseUrl = e["OLLAMA_BASE_URL"],
                                           !.model = e["OLLAMA_EMBEDDING_MODEL"]],
                       e, fails), <<"Ollama">>)
      [] provider = "openrouter" ->
            Finish(OpenRouterEmbeddingService(
                       [EmptyConfig EXCEPT !.apiKey = e["OPENROUTER_API_KEY"],
                                           !.model = e["OPENROUTER_EMBEDDING_MODEL"]],
                       e, fails), <<"OpenRouter">>)
      [] provider = "openai" ->
            Finish(OpenAIEmbeddingService(
                       [EmptyConfig EXCEPT !.apiKey = Or(e["OPENAI_API_KEY"], ""),
                                           !.model = e["OPENAI_EMBEDDING_MODEL"]],
                       e, fails), <<"OpenAI">>)
      [] provider \in {"default", "mock"} ->
            Finish(DefaultEmbeddingService(0), <<"Default">>)
      [] OTHER ->
            Finish(Threw("Provider is not registered"), <<>>)

\* EmbeddingServiceFactory._createExplicitProvider(provider)
_createExplicitProvider(provider, e, fails) ==
    CASE provider = "ollama" ->
            Finish(OllamaEmbeddingService(
                       [EmptyConfig EXCEPT !.baseUrl = e["OLLAMA_BASE_URL"],
                                           !.model = e["OLLAMA_EMBEDDING_MODEL"]],
                       e, fails), <<"Ollama">>)
      [] provider = "openrouter" ->
            Finish(OpenRouterEmbeddingService(
                       [EmptyConfig EXCEPT !.apiKey = e["OPENROUTER_API_KEY"],
                                           !.model = e["OPENROUTER_EMBEDDING_MODEL"]],
                       e, fails), <<"OpenRouter">>)
      [] provider = "openai" ->
            Finish(OpenAIEmbeddingService(
                       [EmptyConfig EXCEPT !.apiKey = Or(e["OPENAI_API_KEY"], ""),
                                           !.model = e["OPENAI_EMBEDDING_MODEL"]],
                       e, fails), <<"OpenAI">>)
      [] provider \in {"default", "mock"} ->
            Finish(DefaultEmbeddingService(0), <<"Default">>)
      [] OTHER ->
            Finish(DefaultEmbeddingService(0), <<"Default">>)

\* Step 3 of the auto-detection: OPENAI_API_KEY, then the default service.
DetectOpenAI(e, fails, tried) ==
    LET openaiApiKey   == e["OPENAI_API_KEY"]
        embeddingModel == Or(e["OPENAI_EMBEDDING_MODEL"], "text-embedding-3-small")
        r == OpenAIEmbeddingService(
                 [EmptyConfig EXCEPT !.apiKey = openaiApiKey, !.model = embeddingModel],
                 e, fails)
    IN  IF Truthy(openaiApiKey)
        THEN IF r.ok THEN Returned(r, Append(tried, "OpenAI"))
             ELSE Finish(DefaultEmbeddingService(0),
                         Append(Append(tried, "OpenAI"), "Default"))
        ELSE Finish(DefaultEmbeddingService(0), Append(tried, "Default"))

\* A faulty variant: a failing OpenRouter construction is not caught.
DetectOpenRouterUncaught(e, fails, tried) ==
    LET openrouterApiKey == e["OPENROUTER_API_KEY"]
        r == OpenRouterEmbeddingService(
                 [EmptyConfig EXCEPT !.apiKey = openrouterApiKey,
                                     !.model = e["OPENROUTER_EMBEDDING_MODEL"]],
                 e, fails)
    IN  IF Truthy(openrouterApiKey)
        THEN Finish(r, Append(tried, "OpenRouter"))
        ELSE DetectOpenAI(e, fails, tried)

\* Step 2 of the auto-detection: OPENROUTER_API_KEY.
DetectOpenRouter(e, fails, tried) ==
    LET openrouterApiKey == e["OPENROUTER_API_KEY"]
        r == OpenRouterEmbeddingService(
                 [EmptyConfig EXCEPT !.apiKey = openrouterApiKey,
                                     !.model = e["OPENROUTER_EMBEDDING_MODEL"]],
                 e, fails)
    IN  IF Truthy(openrouterApiKey)
        THEN IF r.ok THEN Returned(r, Append(tried, "OpenRouter"))
             ELSE DetectOpenAI(e, fails, Append(tried, "OpenRouter"))
        ELSE DetectOpenAI(e, fails, tried)

\* A faulty variant: the proxy key is probed before the local server's URL.
DetectOpenRouterFirst(e, fails) ==
    LET r == OllamaEmbeddingService(
                 [EmptyConfig EXCEPT !.baseUrl = e["OLLAMA_BASE_URL"]], e, fails)
    IN  IF Truthy(e["OPENROUTER_API_KEY"]) \/ ~Truthy(e["OLLAMA_BASE_URL"])
        THEN DetectOpenRouter(e, fails, <<>>)
        ELSE IF r.ok THEN Returned(r, <<"Ollama">>)
        ELSE DetectOpenAI(e, fails, <<"Ollama">>)

\* Step 1 of the auto-detection: OLLAMA_BASE_URL.
DetectOllama(e, fails) ==
    LET ollamaBaseUrl == e["OLLAMA_BASE_URL"]
        r == OllamaEmbeddingService(
                 [EmptyConfig EXCEPT !.baseUrl = ollamaBaseUrl,
                                     !.model = e["OLLAMA_EMBEDDING_MODEL"]],
                 e, fails)
    IN  IF Truthy(ollamaBaseUrl)
        THEN IF r.ok THEN Returned(r, <<"Ollama">>)
             ELSE DetectOpenRouter(e, fails, <<"Ollama">>)
        ELSE DetectOpenRouter(e, fails, <<>>)

\* A faulty variant: the explicit provider name is looked at before the
\* mock flag.
CreateFromEnvironmentExplicitFirst(e, fails) ==
    LET explicitProvider == OptLower(e["EMBEDDING_PROVIDER"])
    IN  IF Truthy(explicitProvider)
        THEN _createExplicitProvider(explicitProvider, e, fails)
        ELSE IF e["MOCK_EMBEDDINGS"] = "true"
        THEN Finish(DefaultEmbeddingService(0), <<"Default">>)
        ELSE DetectOllama(e, fails)

\* EmbeddingServiceFactory.createFromEnvironment()
createFromEnvironment(e, fails) ==
    LET useMockEmbeddings == e["MOCK_EMBEDDINGS"] = "true"
        explicitProvider  == OptLower(e["EMBEDDING_PROVIDER"])
    IN  IF useMockEmbeddings
        THEN Finish(DefaultEmbeddingService(0), <<"Default">>)
        ELSE IF Truthy(explicitProvider)
        THEN _createExplicitProvider(explicitProvider, e, fails)
        ELSE DetectOllama(e, fails)

-----------------------------------------------------------------------------
(* EmbeddingServiceFactory: the provider registry *)

\* The provider functions: the four registered at module load and two custom
\* ones a caller registers.
BuiltinFns == {"builtin:default", "builtin:openai", "builtin:ollama", "builtin:openrouter"}
CustomFns  == {"fnA", "fnB"}

\* The registry after the four registerProvider calls at module load.
BuiltinProviders ==
    [k \in {"default", "openai", "ollama", "openrouter"} |->
        CASE k = "default"    -> "builtin:default"
          [] k = "openai"     -> "builtin:openai"
          [] k = "ollama"     -> "builtin:ollama"
          [] k = "openrouter" -> "builtin:openrouter"]

\* `providers = {}`: an object literal with no own keys.
EmptyRegistry == [k \in {} |-> undefined]

\* `providers[key]`: the own property, else what the object literal inherits
\* from Object.prototype; of the keys the model uses only "constructor" (the
\* function Object) is inherited.
Get(p, key) ==
    IF key \in DOMAIN p THEN p[key]
    ELSE IF key = "constructor" THEN "Object"
    ELSE undefined

\* A faulty variant: the name is stored as given, not lowercased.
RegisterProviderAsGiven(p, name, provider) ==
    [k \in DOMAIN p \cup {name} |-> IF k = name THEN provider ELSE p[k]]

\* EmbeddingServiceFactory.registerProvider(name, provider)
registerProvider(p, name, provider) ==
    LET key == toLowerCase(name)
    IN  [k \in DOMAIN p \cup {key} |-> IF k = key THEN provider ELSE p[k]]

\* EmbeddingServiceFactory.resetRegistry()
resetRegistry(p) == EmptyRegistry

\* EmbeddingServiceFactory.getAvailableProviders(): Object.keys, as a set.
getAvailableProviders(p) == DOMAIN p

\* Whether a value a provider function returned has a getModelInfo method.
HasGetModelInfo(s) == s.kind \in {"Default", "OpenAI", "Ollama", "OpenRouter", "Custom"}

\* providerFn(config): the four functions registered at module load, a custom
\* function (it returns its own backend), and Object(config), which returns
\* the config object itself.
Apply(fn, config, e, fails) ==
    CASE fn = "builtin:default" ->
            DefaultEmbeddingService(config.dimensions)
      [] fn = "builtin:openai" ->
            IF ~Truthy(config.apiKey)
            THEN Threw("API key is required for OpenAI embedding service")
            ELSE OpenAIEmbeddingService(
                     [EmptyConfig EXCEPT !.apiKey = config.apiKey,
                                         !.model = config.model,
                                         !.dimensions = config.dimensions],
                     e, fails)
      [] fn = "builtin:ollama" ->
            OllamaEmbeddingService(
                [EmptyConfig EXCEPT !.baseUrl = config.baseUrl,
                                    !.model = config.model,
                                    !.dimensions = config.dimensions,
                                    !.timeout = config.timeout],
                e, fails)
      [] fn = "builtin:openrouter" ->
            IF ~Truthy(config.apiKey)
            THEN Threw("API key is required for OpenRouter embedding service")
            ELSE OpenRouterEmbeddingService(
                     [EmptyConfig EXCEPT !.apiKey = config.apiKey,
                                         !.model = config.model,
                                         !.dimensions = config.dimensions,
                                         !.timeout = config.timeout,
                                         !.siteUrl = config.siteUrl,
                                         !.siteName = config.siteName],
                     e, fails)
      [] fn \in CustomFns ->
            Made([NoService EXCEPT !.kind = "Custom", !.madeBy = fn])
      [] fn = "Object" ->
            Made([NoService EXCEPT !.kind = "config-object"])

\* EmbeddingServiceFactory.createService(config)
createService(config, p, e, fails) ==
    LET providerName == toLowerCase(Or(config.provider, "default"))
        providerFn   == Get(p, providerName)
        r            == Apply(providerFn, config, e, fails)
        ran          == <<[fn |-> providerFn, config |-> config]>>
    IN  IF providerFn # undefined
        THEN IF ~r.ok
             THEN [status |-> "threw", service |-> NoService,
                   error |-> r.error, invoked |-> ran]
             ELSE IF ~HasGetModelInfo(r.service)
             THEN [status |-> "threw", service |-> NoService,
                   error |-> "TypeError: service.getModelInfo is not a function",
                   invoked |-> ran]
             ELSE [status |-> "returned", service |-> r.service,
                   error |-> undefined, invoked |-> ran]
        ELSE [status |-> "threw", service |-> NoService,
              error |-> "Provider is not registered", invoked |-> <<>>]

-----------------------------------------------------------------------------
(* The registry's state machine *)

\* The names registerProvider is called with, and the configs createService
\* is called with.
RegNames     == {"custom", "Custom", "default", "", "constructor"}
ProviderArgs ==
    {undefined, "", "custom", "CUSTOM", "Default", "constructor",
     "openrouter", "ollama", "unregistered-name"}
Configs ==
    {[EmptyConfig EXCEPT !.provider = p, !.apiKey = k] :
        p \in ProviderArgs, k \in {undefined, "or-key"}}

NoCreated ==
    [op |-> "none", name |-> undefined, fn |-> undefined, config |-> EmptyConfig,
     status |-> "none", service |-> NoService, error |-> undefined,
     invoked |-> <<>>, listed |-> {}]

\* A call of registerProvider(name, fn).
RegisterProvider ==
    /\ \E name \in RegNames : \E fn \in CustomFns :
          /\ providers' = registerProvider(providers, name, fn)
          /\ regLog' = regLog \cup {name}
          /\ created' = [NoCreated EXCEPT !.op = "register", !.name = name, !.fn = fn]
    /\ UNCHANGED <<env, outcome, svc, calls, batch, last, hist>>

\* A call of registerProvider(name, fn) that replaces a constructor
\* registered at module load, or registers one under its name again after
\* a reset.
RegisterOverBuiltin ==
    /\ \E name \in DOMAIN BuiltinProviders :
          /\ providers' = registerProvider(providers, name, "fnA")
          /\ regLog' = regLog \cup {name}
          /\ created' = [NoCreated EXCEPT !.op = "register", !.name = name,
                                          !.fn = "fnA"]
    /\ UNCHANGED <<env, outcome, svc, calls, batch, last, hist>>

\* A call of resetRegistry().
ResetRegistry ==
    /\ providers' = resetRegistry(providers)
    /\ regLog' = {}
    /\ created' = [NoCreated EXCEPT !.op = "reset"]
    /\ UNCHANGED <<env, outcome, svc, calls, batch, last, hist>>

\* A call of createService(config).
CreateService ==
    /\ \E config \in Configs :
          LET r == createService(config, providers, env, {})
          IN  created' = [NoCreated EXCEPT !.op = "create", !.config = config,
                              !.status = r.status, !.service = r.service,
                              !.error = r.error, !.invoked = r.invoked]
    /\ UNCHANGED <<env, outcome, providers, regLog, svc, calls, batch, last, hist>>

\* A call of getAvailableProviders().
GetAvailableProviders ==
    /\ created' = [NoCreated EXCEPT !.op = "list",
                       !.listed = getAvailableProviders(providers)]
    /\ UNCHANGED <<env, outcome, providers, regLog, svc, calls, batch, last, hist>>

-----------------------------------------------------------------------------
(* The resolver's state machine *)

\* The record of the last createFromEnvironment call; asLoaded tells whether
\* it ran under the registry as the module load left it.
NoOutcome ==
    [status |-> "none", service |-> NoService, error |-> undefined,
     attempts |-> <<>>, fails |-> {}, asLoaded |-> TRUE]

\* process.env[name] = value, or delete process.env[name].  The record of
\* the last call belongs to the environment it ran under and is dropped.
SetEnv ==
    /\ \E name \in EnvNames : \E value \in EnvValues(name) :
          /\ env[name] # value
          /\ env' = [env EXCEPT ![name] = value]
    /\ outcome' = NoOutcome
    /\ UNCHANGED <<providers, regLog, created, svc, calls, batch, last, hist>>

\* A faulty variant: a provider named by EMBEDDING_PROVIDER is built by the
\* constructor registered under that name.
CallCreateFromEnvironmentByRegistry ==
    /\ \E fails \in SUBSET Kinds :
          LET name == OptLower(env["EMBEDDING_PROVIDER"])
              r == createFromEnvironment(env, fails)
              c == createService(
                       [EmptyConfig EXCEPT !.provider = name,
                                           !.apiKey = env["OPENROUTER_API_KEY"]],
                       providers, env, fails)
          IN  outcome' =
                  IF env["MOCK_EMBEDDINGS"] # "true" /\ Truthy(name)
                  THEN [status |-> c.status, service |-> c.service,
                        error |-> c.error,
                        attempts |-> [i \in 1..Len(c.invoked) |-> c.invoked[i].fn],
                        fails |-> fails,
                        asLoaded |-> providers = BuiltinProviders]
                  ELSE [status |-> r.status, service |-> r.service,
                        error |-> r.error, attempts |-> r.attempts,
                        fails |-> fails,
                        asLoaded |-> providers = BuiltinProviders]
    /\ UNCHANGED <<env, providers, regLog, created, svc, calls, batch, last, hist>>

\* A call of createFromEnvironment(); the record keeps the set of throwing
\* constructors it ran under.
CallCreateFromEnvironment ==
    /\ \E fails \in SUBSET Kinds :
          LET r == createFromEnvironment(env, fails)
          IN  outcome' = [status |-> r.status, service |-> r.service,
                          error |-> r.error, attempts |-> r.attempts,
                          fails |-> fails,
                          asLoaded |-> providers = BuiltinProviders]
    /\ UNCHANGED <<env, providers, regLog, created, svc, calls, batch, last, hist>>

-----------------------------------------------------------------------------
(* Constructing the network-backed backends *)

\* The values the constructors' variables are driven through.
BackendEnvValues(name) ==
    CASE name = "MOCK_EMBEDDINGS"            -> {undefined, "true"}
      [] name = "EMBEDDING_PROVIDER"         -> {undefined, "openrouter", "ollama"}
      [] name = "OLLAMA_BASE_URL"            -> {undefined, "http://g/"}
      [] name = "OLLAMA_EMBEDDING_MODEL"     -> {undefined, "env-model"}
      [] name = "OPENROUTER_API_KEY"         -> {undefined, "env-key"}
      [] name = "OPENROUTER_EMBEDDING_MODEL" -> {undefined, "cohere/embed-english-v3.0"}
      [] name = "OPENROUTER_SITE_URL"        -> {undefined, "http://env.site"}
      [] name = "OPENROUTER_SITE_NAME"       -> {undefined, "env-site"}
      [] OTHER                               -> {undefined}

\* The configs the backends are constructed with: each option that has an
\* environment equivalent is set or unset.
BackendConfigs ==
    {[EmptyConfig EXCEPT !.provider = p, !.apiKey = k, !.model = m,
                         !.baseUrl = b, !.siteUrl = u, !.siteName = n] :
        p \in {"ollama", "openrouter"}, k \in {undefined, "cfg-key"},
        m \in {undefined, "cfg-model"}, b \in {undefined, "http://h/"},
        u \in {undefined, "http://cfg.site"}, n \in {undefined, "cfg-site"}}

\* process.env[name] = value, or delete process.env[name]; the records of
\* the calls made under the old environment are dropped.
SetBackendEnv ==
    /\ \E name \in EnvNames : \E value \in BackendEnvValues(name) :
          /\ env[name] # value
          /\ env' = [env EXCEPT ![name] = value]
    /\ outcome' = NoOutcome
    /\ created' = NoCreated
    /\ UNCHANGED <<providers, regLog, svc, calls, batch, last, hist>>

\* `new OllamaEmbeddingService(config)` or
\* `new OpenRouterEmbeddingService(config)`, the class named by
\* config.provider.  A construction is recorded once per set-up of the
\* environment; the record is dropped when the environment changes.
Construct ==
    /\ created = NoCreated
    /\ \E config \in BackendConfigs :
          LET r == IF config.provider = "ollama"
                   THEN OllamaEmbeddingService(config, env, {})
                   ELSE OpenRouterEmbeddingService(config, env, {})
          IN  created' = [NoCreated EXCEPT
                              !.op = "new", !.name = config.provider,
                              !.config = config,
                              !.status = IF r.ok THEN "returned" ELSE "threw",
                              !.service = r.service, !.error = r.error]
    /\ UNCHANGED <<env, outcome, providers, regLog, svc, calls, batch, last, hist>>

\* A call of createService(config) for a network-backed provider.
CreateBackend ==
    /\ created = NoCreated
    /\ \E config \in BackendConfigs :
          LET r == createService(config, providers, env, {})
          IN  created' = [NoCreated EXCEPT !.op = "create", !.config = config,
                              !.status = r.status, !.service = r.service,
                              !.error = r.error, !.invoked = r.invoked]
    /\ UNCHANGED <<env, outcome, providers, regLog, svc, calls, batch, last, hist>>

\* A call of createFromEnvironment(), no constructor failing for reasons of
\* its own.
CreateFromEnv ==
    /\ created = NoCreated
    /\ LET r == createFromEnvironment(env, {})
       IN  created' = [NoCreated EXCEPT !.op = "fromEnvironment",
                           !.status = r.status, !.service = r.service,
                           !.error = r.error]
    /\ UNCHANGED <<env, outcome, providers, regLog, svc, calls, batch, last, hist>>

-----------------------------------------------------------------------------
(* Vectors, responses and the normalizer *)

\* Bounds: the longest vector a response carries, the longest batch, the
\* number of generateEmbedding calls in flight at once.
MaxLen   == 2
MaxTexts == 2
MaxCalls == 2

Zero(n) == [i \in 1..n |-> 0]
Ramp(n) == [i \in 1..n |-> i + 2]

\* The number arrays a response carries: the empty array, all-zero vectors
\* of every length and a vector of norm other than 1 (<<3, 4>>).
Vectors == {Zero(n) : n \in 0..MaxLen} \cup {Ramp(MaxLen)}

\* The elements are doubles.  An array is kept as integer mantissas `vec` and
\* one binary scale: element i is vec[i] ("unit"), vec[i] * 2^600 ("huge",
\* about 4e180) or vec[i] * 2^-538 ("tiny", about 1e-162), all of them
\* doubles a JSON body can carry.
Scales == {"unit", "huge", "tiny"}

RECURSIVE SumSq(_)
SumSq(v) == IF Len(v) = 0 THEN 0 ELSE v[1] * v[1] + SumSq(Tail(v))

\* The sum of the squares of tiny elements, in units of 2^-1074, the
\* smallest positive double: (k * 2^-538)^2 is k^2 / 4 units, and the
\* product is rounded to a whole number of units (k^2 mod 4 is 0 or 1, so
\* the nearest is below).
RECURSIVE TinySumSq(_)
TinySumSq(v) ==
    IF Len(v) = 0 THEN 0 ELSE (v[1] * v[1]) \div 4 + TinySumSq(Tail(v))

\* What the loop `magnitude += vector[i] * vector[i]` leaves: Infinity when
\* a square exceeds the largest double, otherwise the sum, in units of 1
\* or, for tiny elements, of 2^-1074.
SquaredMagnitude(vector) ==
    CASE vector.scale = "huge" -> [inf |-> SumSq(vector.vec) > 0, sum |-> 0]
      [] vector.scale = "tiny" -> [inf |-> FALSE, sum |-> TinySumSq(vector.vec)]
      [] OTHER                 -> [inf |-> FALSE, sum |-> SumSq(vector.vec)]

\* `vector[0] = 1` on an array: an empty array grows to [1].
SetFirst(v) == IF Len(v) = 0 THEN <<1>> ELSE [v EXCEPT ![1] = 1]

\* A vector after normalization is kept exactly: element i is
\* num[i] / sqrt(den2).  The rounding of Math.sqrt and of the division (one
\* part in 2^52) is left out.
NoVector == [num |-> <<>>, den2 |-> 0]

\* The divisor of `vector[i] /= magnitude` on the scale of the mantissas:
\* (k * 2^-538) / sqrt(sum * 2^-1074) is k / sqrt(4 * sum).
Den2(vector, sum) == IF vector.scale = "tiny" THEN 4 * sum ELSE sum

\* The elements an array keeps when nothing is divided: tiny elements
\* (under 2^-537) count as 0 in a result.
Kept(vector) ==
    IF vector.scale = "unit" THEN vector.vec ELSE Zero(Len(vector.vec))

\* A faulty variant: a vector of magnitude 0 is returned as it is.
OllamaNormalizeVectorKeepsZero(vector) ==
    LET magnitude2 == SquaredMagnitude(vector)
    IN  IF magnitude2.inf THEN [num |-> Zero(Len(vector.vec)), den2 |-> 1]
        ELSE IF magnitude2.sum > 0
        THEN [num |-> vector.vec, den2 |-> Den2(vector, magnitude2.sum)]
        ELSE [num |-> Kept(vector), den2 |-> 1]

\* OllamaEmbeddingService._normalizeVector.  `magnitude > 0` iff the sum of
\* squares is; an element divided by Infinity is 0.
OllamaNormalizeVector(vector) ==
    LET magnitude2 == SquaredMagnitude(vector)
    IN  IF magnitude2.inf THEN [num |-> Zero(Len(vector.vec)), den2 |-> 1]
        ELSE IF magnitude2.sum > 0
        THEN [num |-> vector.vec, den2 |-> Den2(vector, magnitude2.sum)]
        ELSE [num |-> SetFirst(Kept(vector)), den2 |-> 1]

\* OpenRouterEmbeddingService._normalizeVector
OpenRouterNormalizeVector(vector) ==
    LET magnitude2 == SquaredMagnitude(vector)
    IN  IF magnitude2.inf THEN [num |-> Zero(Len(vector.vec)), den2 |-> 1]
        ELSE IF magnitude2.sum > 0
        THEN [num |-> vector.vec, den2 |-> Den2(vector, magnitude2.sum)]
        ELSE [num |-> SetFirst(Kept(vector)), den2 |-> 1]

\* The JSON value at an `embedding` field: absent, a string, or an array.
Missing  == [type |-> "missing", vec |-> <<>>, scale |-> "unit"]
NotArray == [type |-> "string", vec |-> <<>>, scale |-> "unit"]
Arr(v)   == [type |-> "array", vec |-> v, scale |-> "unit"]
Scaled(v, scale) == [type |-> "array", vec |-> v, scale |-> scale]
EmbeddingValues ==
    {Missing, NotArray} \cup {Arr(v) : v \in Vectors}
      \cup {Scaled(Ramp(MaxLen), scale) : scale \in Scales \ {"unit"}}

\* What `await axios.post` yields: a response (with or without a body), an
\* axios error (an HTTP status, or no response and a connection code), or
\* another error.  status 0 stands for no status.
Statuses == {401, 402, 404, 429, 500}
Response(hasData, emb, items) ==
    [type |-> "response", data |-> hasData, embedding |-> emb, items |-> items,
     status |-> 0, code |-> undefined]
AxiosError(status, code) ==
    [type |-> "axiosError", data |-> FALSE, embedding |-> Missing, items |-> <<>>,
     status |-> status, code |-> code]
OtherError ==
    [type |-> "error", data |-> FALSE, embedding |-> Missing, items |-> <<>>,
     status |-> 0, code |-> "boom"]
ErrorReplies ==
    {AxiosError(s, "ERR_BAD_RESPONSE") : s \in Statuses}
      \cup {AxiosError(0, "ECONNREFUSED"), AxiosError(0, "ECONNABORTED"), OtherError}
NoReply == Response(FALSE, Missing, <<>>)

\* The Ollama server's answers: { embedding }.
OllamaReplies ==
    {Response(TRUE, ev, <<>>) : ev \in EmbeddingValues}
      \cup {NoReply} \cup ErrorReplies

\* An error a call throws: `new Error(msg + arg)`.
NoError == [msg |-> undefined, arg |-> undefined]
Err(msg, arg) == [msg |-> msg, arg |-> arg]

\* `${statusCode || axiosError.code || 'unknown'}`
StatusOrCode(status, code) ==
    IF status # 0 THEN ToString(status) ELSE Or(code, "unknown")

-----------------------------------------------------------------------------
(* OllamaEmbeddingService *)

Fail(s, err) == [svc |-> s, status |-> "threw", vector |-> NoVector, error |-> err]

\* A faulty variant: the dimensions follow every response, as in the
\* OpenRouter backend.
OllamaGenerateEmbeddingFollows(s, reply) ==
    IF reply.type = "response" /\ reply.data /\ reply.embedding.type = "array"
       /\ Len(reply.embedding.vec) > 0
    THEN [svc |-> [s EXCEPT !.dimensions = Len(reply.embedding.vec),
                            !.dimensionsDetected = TRUE],
          status |-> "returned",
          vector |-> OllamaNormalizeVector(reply.embedding),
          error |-> NoError]
    ELSE Fail(s, Err("Error generating Ollama embedding: ", reply.code))

\* A faulty variant: the dimensions are detected before the vector is
\* validated.
OllamaGenerateEmbeddingDetectsFirst(s, reply) ==
    LET embedding == reply.embedding
        detected  == IF ~s.dimensionsDetected /\ reply.type = "response"
                     THEN [s EXCEPT !.dimensions = Len(embedding.vec),
                                    !.dimensionsDetected = TRUE]
                     ELSE s
    IN  IF reply.type = "response" /\ reply.data /\ embedding.type = "array"
           /\ Len(embedding.vec) > 0
        THEN [svc |-> detected, status |-> "returned",
              vector |-> OllamaNormalizeVector(embedding), error |-> NoError]
        ELSE Fail(detected, Err("Error generating Ollama embedding: ",
                                "Invalid embedding returned from Ollama API"))

\* A faulty variant: the first valid response sets the detected flag and
\* leaves the dimensions as constructed.
OllamaGenerateEmbeddingKeepsDeclared(s, reply) ==
    IF reply.type = "response" /\ reply.data /\ reply.embedding.type = "array"
       /\ Len(reply.embedding.vec) > 0
    THEN [svc |-> [s EXCEPT !.dimensionsDetected = TRUE],
          status |-> "returned",
          vector |-> OllamaNormalizeVector(reply.embedding),
          error |-> NoError]
    ELSE Fail(s, Err("Error generating Ollama embedding: ", reply.code))

\* OllamaEmbeddingService.generateEmbedding from the point `await axios.post`
\* resumes with `reply`: the try block, then the catch block.
OllamaGenerateEmbedding(s, reply) ==
    LET embedding == reply.embedding
        detected  == IF ~s.dimensionsDetected
                     THEN [s EXCEPT !.dimensions = Len(embedding.vec),
                                    !.dimensionsDetected = TRUE]
                     ELSE s
    IN  CASE reply.type = "response" ->
               IF ~reply.data \/ embedding.type = "missing"
               THEN Fail(s, Err("Error generating Ollama embedding: ",
                                "Invalid response from Ollama API - missing embedding data"))
               ELSE IF embedding.type # "array" \/ Len(embedding.vec) = 0
               THEN Fail(s, Err("Error generating Ollama embedding: ",
                                "Invalid embedding returned from Ollama API"))
               ELSE [svc |-> detected, status |-> "returned",
                     vector |-> OllamaNormalizeVector(embedding),
                     error |-> NoError]
          [] reply.type = "axiosError" ->
               IF reply.code = "ECONNREFUSED"
               THEN Fail(s, Err("Ollama server not reachable at ", s.baseUrl))
               ELSE IF reply.status = 404
               THEN Fail(s, Err("Ollama model not found: ", s.model))
               ELSE Fail(s, Err("Ollama API error ",
                                StatusOrCode(reply.status, reply.code)))
          [] OTHER ->
               Fail(s, Err("Error generating Ollama embedding: ", reply.code))

\* OllamaEmbeddingService.getModelInfo
OllamaGetModelInfo(s) ==
    [name |-> s.model, dimensions |-> s.dimensions, version |-> "1.0.0"]

-----------------------------------------------------------------------------
(* The state of a backend under test *)

\* The texts of a batch are distinct, so a position names its text.
AllTexts == <<"t1", "t2", "t3", "t4", "t5", "t6">>
TextSeqs == {SubSeq(AllTexts, 1, n) : n \in 0..MaxTexts}
CallIds  == 1..MaxCalls

\* A call that is not in flight has sent nothing.
NoCalls == [id \in CallIds |-> <<>>]
\* A generateEmbeddings call in flight: its texts, the inputs of the
\* requests it has sent (in order), the embeddings of the responses it has
\* consumed, the loop position and the vectors pushed so far.
NoBatch ==
    [st |-> "idle", texts |-> <<>>, i |-> 0, acc |-> <<>>,
     sent |-> <<>>, replies |-> <<>>]
NoLast  ==
    [op |-> "none", status |-> "none", vectors |-> <<>>, error |-> NoError,
     reply |-> NoReply, requests |-> 0]
\* What has been observed of an instance since its construction: the vector
\* length of its first valid response, whether two generateEmbedding calls
\* were in flight together, and whether a call has failed.
NoHist  == [firstLen |-> 0, overlapped |-> FALSE, failed |-> FALSE]

\* The record of a completed call; requests is the number of axios.post
\* calls it made.
Done(op, status, vectors, error, reply, requests) ==
    [op |-> op, status |-> status, vectors |-> vectors, error |-> error,
     reply |-> reply, requests |-> requests]

\* The history after generateEmbedding handled a response: the length of
\* the first valid vector a response carried.
Seen(h, r, reply) ==
    IF r.status = "returned"
    THEN [h EXCEPT !.firstLen = IF h.firstLen = 0 THEN Len(reply.embedding.vec)
                                ELSE h.firstLen]
    ELSE [h EXCEPT !.failed = TRUE]

\* The history after one more generateEmbedding call was started while the
\* calls in c were in flight.
Started(h, c) ==
    [h EXCEPT !.overlapped = @ \/ \E id \in CallIds : c[id] # <<>>]

\* generateEmbedding(text) runs to `await axios.post`: the request is sent.
\* The caller runs single calls side by side, and a batch on its own.
OllamaCall ==
    /\ batch.st = "idle"
    /\ \E id \in CallIds :
          /\ calls[id] = <<>>
          /\ calls' = [calls EXCEPT ![id] = <<"t1">>]
    /\ hist' = Started(hist, calls)
    /\ UNCHANGED <<env, outcome, providers, regLog, created, svc, batch, last>>

\* A faulty variant: a request that fails is sent once more before the
\* call gives up.
OllamaReplyRetries ==
    /\ \E id \in CallIds : \E reply \in OllamaReplies :
          /\ calls[id] # <<>>
          /\ IF reply.type # "response" /\ Len(calls[id]) < 2
             THEN /\ calls' = [calls EXCEPT ![id] = Append(@, "t1")]
                  /\ UNCHANGED <<svc, last, hist>>
             ELSE /\ LET r == OllamaGenerateEmbedding(svc, reply)
                     IN  /\ svc' = r.svc
                         /\ last' = Done("generateEmbedding", r.status,
                                         IF r.status = "returned" THEN <<r.vector>>
                                         ELSE <<>>,
                                         r.error, reply, Len(calls[id]))
                         /\ hist' = Seen(hist, r, reply)
                  /\ calls' = [calls EXCEPT ![id] = <<>>]
    /\ UNCHANGED <<env, outcome, providers, regLog, created, batch>>

\* The answer to a generateEmbedding call arrives and the call completes.
OllamaReply ==
    /\ \E id \in CallIds : \E reply \in OllamaReplies :
          /\ calls[id] # <<>>
          /\ LET r == OllamaGenerateEmbedding(svc, reply)
             IN  /\ svc' = r.svc
                 /\ last' = Done("generateEmbedding", r.status,
                                 IF r.status = "returned" THEN <<r.vector>> ELSE <<>>,
                                 r.error, reply, Len(calls[id]))
                 /\ hist' = Seen(hist, r, reply)
          /\ calls' = [calls EXCEPT ![id] = <<>>]
    /\ UNCHANGED <<env, outcome, providers, regLog, created, batch>>

\* generateEmbeddings(texts) starts: with no text it returns [] at once,
\* else it calls generateEmbedding(texts[0]) and waits.
OllamaBatchCall ==
    /\ batch.st = "idle"
    /\ calls = NoCalls
    /\ \E texts \in TextSeqs :
          IF texts = <<>>
          THEN /\ last' = Done("generateEmbeddings", "returned", <<>>, NoError,
                               NoReply, 0)
               /\ batch' = batch
          ELSE /\ batch' = [st |-> "waiting", texts |-> texts, i |-> 1, acc |-> <<>>,
                             sent |-> <<<<texts[1]>>>>, replies |-> <<>>]
               /\ last' = last
    /\ UNCHANGED <<env, outcome, providers, regLog, created, svc, calls, hist>>

\* A faulty variant: a text whose request fails is skipped and the loop
\* goes on with the next text.
OllamaBatchReplySkipsFailures ==
    /\ batch.st = "waiting"
    /\ \E reply \in OllamaReplies :
          LET r   == OllamaGenerateEmbedding(svc, reply)
              acc == IF r.status = "threw" THEN batch.acc
                     ELSE Append(batch.acc, r.vector)
          IN  /\ svc' = r.svc
              /\ hist' = Seen(hist, r, reply)
              /\ IF batch.i = Len(batch.texts)
                 THEN /\ batch' = NoBatch
                      /\ last' = Done("generateEmbeddings", "returned", acc, NoError,
                                      reply, Len(batch.sent))
                 ELSE /\ batch' = [batch EXCEPT
                                      !.i = batch.i + 1, !.acc = acc,
                                      !.sent = Append(batch.sent,
                                                      <<batch.texts[batch.i + 1]>>),
                                      !.replies = Append(batch.replies,
                                                         reply.embedding)]
                      /\ last' = last
    /\ UNCHANGED <<env, outcome, providers, regLog, created, calls>>

\* The answer for texts[i] arrives: generateEmbedding completes, and the
\* loop pushes its vector and goes on, or its error ends generateEmbeddings.
OllamaBatchReply ==
    /\ batch.st = "waiting"
    /\ \E reply \in OllamaReplies :
          LET r   == OllamaGenerateEmbedding(svc, reply)
              acc == Append(batch.acc, r.vector)
          IN  /\ svc' = r.svc
              /\ hist' = Seen(hist, r, reply)
              /\ IF r.status = "threw"
                 THEN /\ batch' = NoBatch
                      /\ last' = Done("generateEmbeddings", "threw", <<>>, r.error,
                                      reply, Len(batch.sent))
                 ELSE IF batch.i = Len(batch.texts)
                 THEN /\ batch' = NoBatch
                      /\ last' = Done("generateEmbeddings", "returned", acc, NoError,
                                      reply, Len(batch.sent))
                 ELSE /\ batch' = [batch EXCEPT
                                      !.i = batch.i + 1, !.acc = acc,
                                      !.sent = Append(batch.sent,
                                                      <<batch.texts[batch.i + 1]>>),
                                      !.replies = Append(batch.replies,
                                                         reply.embedding)]
                      /\ last' = last
    /\ UNCHANGED <<env, outcome, providers, regLog, created, calls>>

-----------------------------------------------------------------------------
(* OpenRouterEmbeddingService *)

\* The OpenRouter API's answers: { data: [{ embedding, index }, ...] }.
\* The items of a response arrive in the order of the inputs or reversed.
Item(ev, index) == [embedding |-> ev, index |-> index]
ItemValues ==
    {Missing, NotArray, Arr(<<>>), Arr(Zero(1)), Arr(Ramp(MaxLen)),
     Scaled(Ramp(MaxLen), "tiny")}
ItemSeqs ==
    UNION {
        {[i \in 1..n |-> Item(f[i], IF asc THEN i - 1 ELSE n - i)] :
            f \in [1..n -> ItemValues], asc \in BOOLEAN}
        : n \in 0..MaxTexts}
OpenRouterReplies ==
    {Response(TRUE, Missing, items) : items \in ItemSeqs}
      \cup {NoReply} \cup ErrorReplies

\* A faulty variant: every axios error is reported as the generic API
\* error, whatever its status.
OpenRouterGenerateEmbeddingGenericErrors(s, reply) ==
    IF reply.type = "axiosError"
    THEN Fail(s, Err("OpenRouter API error ", StatusOrCode(reply.status, undefined)))
    ELSE IF reply.type = "response" /\ reply.data /\ Len(reply.items) > 0
            /\ reply.items[1].embedding.type = "array"
            /\ Len(reply.items[1].embedding.vec) > 0
    THEN [svc |-> [s EXCEPT !.dimensions = Len(reply.items[1].embedding.vec)],
          status |-> "returned",
          vector |-> OpenRouterNormalizeVector(reply.items[1].embedding),
          error |-> NoError]
    ELSE Fail(s, Err("Error generating OpenRouter embedding: ",
                     "Invalid embedding returned from OpenRouter API"))

\* OpenRouterEmbeddingService.generateEmbedding from the point
\* `await axios.post` resumes with `reply`.
OpenRouterGenerateEmbedding(s, reply) ==
    LET embedding == reply.items[1].embedding
        updated   == IF Len(embedding.vec) # s.dimensions
                     THEN [s EXCEPT !.dimensions = Len(embedding.vec)]
                     ELSE s
    IN  CASE reply.type = "response" ->
               IF ~reply.data \/ Len(reply.items) = 0
               THEN Fail(s, Err("Error generating OpenRouter embedding: ",
                                "Invalid response from OpenRouter API - missing embedding data"))
               ELSE IF embedding.type # "array" \/ Len(embedding.vec) = 0
               THEN Fail(s, Err("Error generating OpenRouter embedding: ",
                                "Invalid embedding returned from OpenRouter API"))
               ELSE [svc |-> updated, status |-> "returned",
                     vector |-> OpenRouterNormalizeVector(embedding),
                     error |-> NoError]
          [] reply.type = "axiosError" ->
               CASE reply.status = 401 ->
                      Fail(s, Err("OpenRouter API authentication failed - invalid API key", ""))
                 [] reply.status = 402 ->
                      Fail(s, Err("OpenRouter API - insufficient credits", ""))
                 [] reply.status = 429 ->
                      Fail(s, Err("OpenRouter API rate limit exceeded - try again later", ""))
                 [] reply.status = 404 ->
                      Fail(s, Err("OpenRouter model not found or not available for embeddings: ",
                                  s.model))
                 [] OTHER ->
                      Fail(s, Err("OpenRouter API error ",
                                  StatusOrCode(reply.status, undefined)))
          [] OTHER ->
               Fail(s, Err("Error generating OpenRouter embedding: ", reply.code))

\* `embeddings.forEach(e => this._normalizeVector(e))`: the vectors
\* normalized so far, or "TypeError" at the first item that is no array
\* (reading `length` of undefined; assigning to an index of a string).
RECURSIVE NormalizeAll(_)
NormalizeAll(embeddings) ==
    IF Len(embeddings) = 0 THEN [ok |-> TRUE, vectors |-> <<>>]
    ELSE LET head == Head(embeddings)
             rest == NormalizeAll(Tail(embeddings))
         IN  IF head.type # "array" \/ ~rest.ok
             THEN [ok |-> FALSE, vectors |-> <<>>]
             ELSE [ok |-> TRUE,
                   vectors |-> <<OpenRouterNormalizeVector(head)>> \o rest.vectors]

\* OpenRouterEmbeddingService.generateEmbeddings from the point
\* `await axios.post` resumes with `reply`.
OpenRouterGenerateEmbeddings(s, reply) ==
    LET embeddings == [i \in 1..Len(reply.items) |-> reply.items[i].embedding]
        normalized == NormalizeAll(embeddings)
        failed(arg) == [svc |-> s, status |-> "threw", vectors |-> <<>>,
                        error |-> Err("Failed to generate OpenRouter embeddings: ", arg)]
    IN  CASE reply.type = "response" ->
               IF ~reply.data
               THEN failed("TypeError")
               ELSE IF ~normalized.ok
               THEN failed("TypeError")
               ELSE [svc |-> s, status |-> "returned",
                     vectors |-> normalized.vectors, error |-> NoError]
          [] reply.type = "axiosError" ->
               failed(IF reply.status # 0 THEN "Request failed with status code"
                      ELSE reply.code)
          [] OTHER ->
               failed(reply.code)

\* OpenRouterEmbeddingService.getModelInfo
OpenRouterGetModelInfo(s) ==
    [name |-> s.model, dimensions |-> s.dimensions, version |-> "1.0.0"]

\* generateEmbedding(text) runs to `await axios.post`: the request is sent.
\* The caller runs single calls side by side, and a batch on its own.
OpenRouterCall ==
    /\ batch.st = "idle"
    /\ \E id \in CallIds :
          /\ calls[id] = <<>>
          /\ calls' = [calls EXCEPT ![id] = <<"t1">>]
    /\ UNCHANGED <<env, outcome, providers, regLog, created, svc, batch, last, hist>>

\* The answer to a generateEmbedding call arrives and the call completes.
OpenRouterReply ==
    /\ \E id \in CallIds : \E reply \in OpenRouterReplies :
          /\ calls[id] # <<>>
          /\ Len(reply.items) <= 1
          /\ LET r == OpenRouterGenerateEmbedding(svc, reply)
             IN  /\ svc' = r.svc
                 /\ last' = Done("generateEmbedding", r.status,
                                 IF r.status = "returned" THEN <<r.vector>> ELSE <<>>,
                                 r.error, reply, Len(calls[id]))
          /\ calls' = [calls EXCEPT ![id] = <<>>]
    /\ UNCHANGED <<env, outcome, providers, regLog, created, batch, hist>>

\* generateEmbeddings(texts) runs to `await axios.post`: one request carries
\* every text.
OpenRouterBatchCall ==
    /\ batch.st = "idle"
    /\ calls = NoCalls
    /\ \E texts \in TextSeqs :
          batch' = [st |-> "waiting", texts |-> texts, i |-> 0, acc |-> <<>>,
                    sent |-> <<texts>>, replies |-> <<>>]
    /\ UNCHANGED <<env, outcome, providers, regLog, created, svc, calls, last, hist>>

\* The answer to the batch request arrives and generateEmbeddings completes.
OpenRouterBatchReply ==
    /\ batch.st = "waiting"
    /\ \E reply \in OpenRouterReplies :
          LET r == OpenRouterGenerateEmbeddings(svc, reply)
          IN  /\ svc' = r.svc
              /\ last' = Done("generateEmbeddings", r.status, r.vectors, r.error,
                              reply, Len(batch.sent))
    /\ batch' = NoBatch
    /\ UNCHANGED <<env, outcome, providers, regLog, created, calls, hist>>

-----------------------------------------------------------------------------
(* Specifications *)

\* The dimensions a backend is constructed with: none declared, or some.
DeclaredDims == {0, MaxLen}

InitResolver ==
    /\ env = EmptyEnv
    /\ outcome = NoOutcome
    /\ providers = BuiltinProviders
    /\ regLog = DOMAIN BuiltinProviders
    /\ created = NoCreated
    /\ svc = NoService
    /\ calls = NoCalls
    /\ batch = NoBatch
    /\ last = NoLast
    /\ hist = NoHist

NextResolver == SetEnv \/ CallCreateFromEnvironment

SpecResolver == InitResolver /\ [][NextResolver]_vars

\* The registry as the module leaves it once loaded.
InitRegistry == InitResolver

NextRegistry ==
    RegisterProvider \/ ResetRegistry \/ CreateService \/ GetAvailableProviders

SpecRegistry == InitRegistry /\ [][NextRegistry]_vars

\* createFromEnvironment called while the registry is reset and the
\* built-in names are registered anew.
InitEnvironmentRegistry == InitResolver

NextEnvironmentRegistry ==
    SetEnv \/ CallCreateFromEnvironment \/ RegisterOverBuiltin \/ ResetRegistry

SpecEnvironmentRegistry ==
    InitEnvironmentRegistry /\ [][NextEnvironmentRegistry]_vars

\* An instance as `new OllamaEmbeddingService({ dimensions })` leaves it.
InitOllama ==
    /\ env = EmptyEnv
    /\ outcome = NoOutcome
    /\ providers = BuiltinProviders
    /\ regLog = DOMAIN BuiltinProviders
    /\ created = NoCreated
    /\ \E d \in DeclaredDims :
          svc = OllamaEmbeddingService([EmptyConfig EXCEPT !.dimensions = d],
                                       env, {}).service
    /\ calls = NoCalls
    /\ batch = NoBatch
    /\ last = NoLast
    /\ hist = NoHist

NextOllama == OllamaCall \/ OllamaReply \/ OllamaBatchCall \/ OllamaBatchReply

SpecOllama == InitOllama /\ [][NextOllama]_vars

\* An instance as `new OpenRouterEmbeddingService({ apiKey, dimensions })`
\* leaves it.
InitOpenRouter ==
    /\ env = EmptyEnv
    /\ outcome = NoOutcome
    /\ providers = BuiltinProviders
    /\ regLog = DOMAIN BuiltinProviders
    /\ created = NoCreated
    /\ \E d \in DeclaredDims :
          svc = OpenRouterEmbeddingService(
                    [EmptyConfig EXCEPT !.apiKey = "or-key", !.dimensions = d],
                    env, {}).service
    /\ calls = NoCalls
    /\ batch = NoBatch
    /\ last = NoLast
    /\ hist = NoHist

NextOpenRouter ==
    OpenRouterCall \/ OpenRouterReply \/ OpenRouterBatchCall \/ OpenRouterBatchReply

SpecOpenRouter == InitOpenRouter /\ [][NextOpenRouter]_vars

\* The construction paths of the network-backed backends: the constructors,
\* the registry and the environment.
InitConstruction == InitResolver

NextConstruction == SetBackendEnv \/ Construct \/ CreateBackend \/ CreateFromEnv

SpecConstruction == InitConstruction /\ [][NextConstruction]_vars

\* Either network-backed backend, for what is said of both: the instance is
\* of one class and runs that class's methods.
InitBackends == InitOllama \/ InitOpenRouter

NextBackends ==
    \/ svc.kind = "Ollama" /\ OllamaCall
    \/ svc.kind = "Ollama" /\ OllamaReply
    \/ svc.kind = "Ollama" /\ OllamaBatchCall
    \/ svc.kind = "Ollama" /\ OllamaBatchReply
    \/ svc.kind = "OpenRouter" /\ OpenRouterCall
    \/ svc.kind = "OpenRouter" /\ OpenRouterReply
    \/ svc.kind = "OpenRouter" /\ OpenRouterBatchCall
    \/ svc.kind = "OpenRouter" /\ OpenRouterBatchReply

SpecBackends == InitBackends /\ [][NextBackends]_vars

-----------------------------------------------------------------------------
(* Properties of createFromEnvironment (SpecResolver) *)

\* What the properties say of the environment.
MockMode     == env["MOCK_EMBEDDINGS"] = "true"
ExplicitName == OptLower(env["EMBEDDING_PROVIDER"])
Explicit     == Truthy(env["EMBEDDING_PROVIDER"])
Present(name) == Truthy(env[name])
Called       == outcome.status # "none"
AutoDetect   == Called /\ ~MockMode /\ ~Explicit

\* The variable that makes a provider a candidate, and the backend it builds.
Probe(k) ==
    CASE k = "ollama"     -> "OLLAMA_BASE_URL"
      [] k = "openrouter" -> "OPENROUTER_API_KEY"
      [] k = "openai"     -> "OPENAI_API_KEY"
KindOf(k) ==
    CASE k = "ollama"     -> "Ollama"
      [] k = "openrouter" -> "OpenRouter"
      [] k = "openai"     -> "OpenAI"
      [] OTHER            -> "Default"

\* C1: with mock mode off, no explicit provider name and no construction
\* failing, createFromEnvironment returns the Ollama backend if
\* OLLAMA_BASE_URL is set, else the OpenRouter backend if OPENROUTER_API_KEY
\* is set, else the OpenAI backend if OPENAI_API_KEY is set, else the Mock
\* backend.
C1_AutoDetectOrder ==
    (AutoDetect /\ outcome.fails = {}) =>
        /\ outcome.status = "returned"
        /\ outcome.service.kind =
              IF Present("OLLAMA_BASE_URL") THEN "Ollama"
              ELSE IF Present("OPENROUTER_API_KEY") THEN "OpenRouter"
              ELSE IF Present("OPENAI_API_KEY") THEN "OpenAI"
              ELSE "Default"

\* The local server wins over the proxy and the direct API when all are set.
C1_Witness ==
    /\ AutoDetect /\ outcome.fails = {}
    /\ Present("OLLAMA_BASE_URL") /\ Present("OPENROUTER_API_KEY")
    /\ Present("OPENAI_API_KEY")
    /\ outcome.service.kind = "Ollama"

\* C2: with the mock-mode flag set, createFromEnvironment returns the Mock
\* backend whatever the other variables are, an explicit provider name
\* included, and constructs nothing else.
C2_MockModeOverrides ==
    (Called /\ MockMode) =>
        /\ outcome.status = "returned"
        /\ outcome.service.kind = "Default"
        /\ outcome.attempts = <<"Default">>

\* Mock mode with an explicit provider name and every candidate present.
C2_Witness ==
    /\ Called /\ MockMode /\ ExplicitName = "openrouter"
    /\ Present("OLLAMA_BASE_URL") /\ Present("OPENROUTER_API_KEY")
    /\ outcome.service.kind = "Default"

\* C3: with the explicit provider name set to "mock", createFromEnvironment
\* returns the Mock backend whichever of the URL and the two keys is present.
C3_ExplicitMock ==
    (Called /\ ExplicitName = "mock") =>
        /\ outcome.status = "returned"
        /\ outcome.service.kind = "Default"

\* The name "mock" with mock mode off and every candidate present.
C3_Witness ==
    /\ Called /\ ~MockMode /\ env["EMBEDDING_PROVIDER"] = "mock"
    /\ Present("OLLAMA_BASE_URL") /\ Present("OPENROUTER_API_KEY")
    /\ Present("OPENAI_API_KEY")
    /\ outcome.service.kind = "Default"

\* The named provider's construction fails: its constructor throws, as the
\* OpenRouter one does when no API key is set.
NamedConstructionFails ==
    /\ ExplicitName \in Kinds
    /\ \/ ExplicitName \in outcome.fails
       \/ ExplicitName = "openrouter" /\ ~Present("OPENROUTER_API_KEY")

\* C4: with mock mode off and an explicit provider name whose construction
\* fails, createFromEnvironment throws that failure: it constructs nothing
\* but the named provider and returns no backend.
C4_ExplicitFailurePropagates ==
    (Called /\ ~MockMode /\ NamedConstructionFails) =>
        /\ outcome.status = "threw"
        /\ outcome.error # undefined
        /\ outcome.service = NoService
        /\ outcome.attempts = <<KindOf(ExplicitName)>>

\* The named proxy has no key while the local server and the direct API are
\* both available.
C4_Witness ==
    /\ Called /\ ~MockMode /\ ExplicitName = "openrouter"
    /\ ~Present("OPENROUTER_API_KEY")
    /\ Present("OLLAMA_BASE_URL") /\ Present("OPENAI_API_KEY")
    /\ outcome.fails = {}
    /\ outcome.status = "threw"

\* The candidates auto-detection constructs, in order: those present, up to
\* the first whose construction succeeds.
Candidates == SelectSeq(<<"ollama", "openrouter", "openai">>,
                        LAMBDA k : Present(Probe(k)))
FirstGood ==
    IF \E i \in 1..Len(Candidates) : Candidates[i] \notin outcome.fails
    THEN CHOOSE i \in 1..Len(Candidates) :
            /\ Candidates[i] \notin outcome.fails
            /\ \A j \in 1..(i - 1) : Candidates[j] \in outcome.fails
    ELSE 0
ExpectedAttempts ==
    IF FirstGood = 0
    THEN [i \in 1..(Len(Candidates) + 1) |->
             IF i <= Len(Candidates) THEN KindOf(Candidates[i]) ELSE "Default"]
    ELSE [i \in 1..FirstGood |-> KindOf(Candidates[i])]

\* C5: in auto-detection every construction failure is absorbed: a failing
\* local candidate leads on to the proxy candidate, a failing proxy
\* candidate to the direct one, a failing direct candidate to the Mock
\* backend; a backend is always returned and nothing is thrown.
C5_AutoDetectAbsorbsFailures ==
    AutoDetect =>
        /\ outcome.status = "returned"
        /\ outcome.error = undefined
        /\ outcome.attempts = ExpectedAttempts
        /\ outcome.service.kind = outcome.attempts[Len(outcome.attempts)]

\* Every candidate is present and every construction fails: the call went
\* through all three and returned the Mock backend.
C5_Witness ==
    /\ AutoDetect /\ outcome.fails = Kinds
    /\ outcome.attempts = <<"Ollama", "OpenRouter", "OpenAI", "Default">>
    /\ outcome.status = "returned"
    /\ outcome.service.kind = "Default"

-----------------------------------------------------------------------------
(* Properties of the registry (SpecRegistry) *)

\* Two names that differ at most in letter case.
SameName(a, b) == toLowerCase(a) = toLowerCase(b)

\* The name looked up for a config.provider, read two ways: "default" when
\* the provider is unset (undefined), or "default" when it is unset or the
\* empty string.
LookupName(n) == IF n = undefined THEN "default" ELSE n
LookupNameOrEmpty(n) == IF Truthy(n) THEN n ELSE "default"

\* No name registered since the last resetRegistry (or at module load)
\* matches n in any letter case, an unset or empty n standing for "default".
NoEntry(n) == \A r \in regLog : ~SameName(r, LookupNameOrEmpty(n))

\* The provider functions createService(provider = n) invokes on registry p.
Resolve(p, n) ==
    LET ran == createService([EmptyConfig EXCEPT !.provider = n], p, env, {}).invoked
    IN  [i \in 1..Len(ran) |-> ran[i].fn]

\* C6: after registerProvider(name, fn), createService with provider = name
\* invokes fn exactly once with the given config and returns what fn
\* returned; createService with a provider name that has no registry entry
\* fails with "Provider is not registered", returns no backend and leaves
\* the registry unchanged.
C6_RegistryRoundTrip ==
    [][ /\ (created.op = "register" /\ created'.op = "create"
              /\ created'.config.provider = created.name) =>
                /\ created'.status = "returned"
                /\ created'.invoked =
                      <<[fn |-> created.fn, config |-> created'.config]>>
                /\ created'.service.madeBy = created.fn
        /\ (created'.op = "create" /\ NoEntry(created'.config.provider)) =>
                /\ created'.status = "threw"
                /\ created'.error = "Provider is not registered"
                /\ created'.service = NoService
                /\ created'.invoked = <<>>
                /\ providers' = providers
      ]_vars

\* What a registerProvider(name, fn) step does to the lookups, under
\* either reading of the name looked up (orEmpty: an empty config.provider
\* is "default" too): a lookup of any casing of name now reaches fn, a
\* lookup of any other registered name reaches what it reached before, and
\* registering (name, fn) again changes nothing.
LastRegistrationWins(name, fn, orEmpty) ==
    /\ \A n \in ProviderArgs \cup RegNames :
          LET looked == IF orEmpty THEN LookupNameOrEmpty(n) ELSE LookupName(n)
          IN  IF SameName(looked, name)
              THEN Resolve(providers', n) = <<fn>>
              ELSE (\E r \in regLog : SameName(r, looked)) =>
                       Resolve(providers', n) = Resolve(providers, n)
    /\ registerProvider(providers', name, fn) = providers'

\* C7 as stated: the constructor is stored under the lowercased name and
\* looked up by lowercased name ("default" when config.provider is unset),
\* so a lookup of a name in any letter case reaches the constructor most
\* recently registered under any casing of that name, and registering the
\* same (name, fn) twice is the same as registering it once.
C7_LastRegistrationWinsAnyName ==
    [][ created'.op = "register" =>
            LastRegistrationWins(created'.name, created'.fn, FALSE) ]_vars

\* C7 amended: the same, where the name looked up is "default" when
\* config.provider is unset or empty; a constructor registered under the
\* empty name is stored and reached by no lookup.
C7_LastRegistrationWins ==
    [][ created'.op = "register" =>
            LastRegistrationWins(created'.name, created'.fn, TRUE) ]_vars

\* "Custom" was registered with fnB after "custom" had been registered.
C7_Witness ==
    /\ created.op = "register" /\ created.name = "Custom" /\ created.fn = "fnB"
    /\ {"custom", "Custom"} \subseteq regLog
    /\ Resolve(providers, "CUSTOM") = <<"fnB">>

\* C8: getAvailableProviders returns exactly the lowercased names registered
\* since the last resetRegistry (since module load: default, openai, ollama,
\* openrouter); right after resetRegistry the set is empty and createService
\* fails with "Provider is not registered" for every name.
C8_AvailableProviders ==
    /\ created.op = "list" =>
          created.listed = {toLowerCase(n) : n \in regLog}
    /\ created.op = "reset" => getAvailableProviders(providers) = {}
    /\ (created.op = "create" /\ regLog = {}) =>
          /\ created.status = "threw"
          /\ created.error = "Provider is not registered"

-----------------------------------------------------------------------------
(* Properties of the Ollama backend (SpecOllama) *)

-----------------------------------------------------------------------------
(* Properties of the OpenRouter backend (SpecOpenRouter) *)

\* The vectors of the response the last call was answered with all have
\* length n.
LastResponseLength(n) ==
    /\ last.status = "returned"
    /\ Len(last.reply.items) > 0
    /\ \A i \in 1..Len(last.reply.items) :
          /\ last.reply.items[i].embedding.type = "array"
          /\ Len(last.reply.items[i].embedding.vec) = n

\* C10: after every successful response, to generateEmbedding or to
\* generateEmbeddings, getModelInfo().dimensions of an OpenRouter backend is
\* the vector length that response carried; before any response it is the
\* configured dimensions or the default of the configured model.
C10_DimensionsFollowResponses ==
    /\ \A n \in 1..MaxLen :
          LastResponseLength(n) => OpenRouterGetModelInfo(svc).dimensions = n
    /\ last.op = "none" =>
          OpenRouterGetModelInfo(svc).dimensions
              \in {MaxLen, _getDefaultDimensions(svc.model)}

-----------------------------------------------------------------------------
(* Properties of both network-backed backends (SpecBackends) *)

\* The response a generateEmbedding call was answered with carries no usable
\* vector: it is missing, is not an array, or is empty.
InvalidVector(reply) ==
    /\ reply.type = "response"
    /\ LET embedding == IF svc.kind = "Ollama" THEN reply.embedding
                        ELSE IF Len(reply.items) = 0 THEN Missing
                        ELSE reply.items[1].embedding
       IN  \/ ~reply.data
           \/ embedding.type # "array"
           \/ Len(embedding.vec) = 0

\* A step in which a generateEmbedding call that was in flight completes.
SingleCallCompletes ==
    \E id \in CallIds : calls[id] # <<>> /\ calls'[id] = <<>>

\* The messages of the errors that report an invalid response.
InvalidResponse ==
    {"Invalid response from Ollama API - missing embedding data",
     "Invalid embedding returned from Ollama API",
     "Invalid response from OpenRouter API - missing embedding data",
     "Invalid embedding returned from OpenRouter API"}

\* C11: generateEmbedding of either backend, answered with a response whose
\* vector is missing, not an array or empty, throws an invalid-response
\* error, returns no vector, and leaves the instance (its dimensions and,
\* for Ollama, its detected flag) as it was before the call.
C11_InvalidResponseLeavesState ==
    [][ (SingleCallCompletes /\ InvalidVector(last'.reply)) =>
            /\ last'.op = "generateEmbedding"
            /\ last'.status = "threw"
            /\ last'.error.arg \in InvalidResponse
            /\ last'.vectors = <<>>
            /\ svc' = svc ]_vars

\* An undetected Ollama instance was answered with an empty array.
C11_Witness ==
    /\ svc.kind = "Ollama" /\ ~svc.dimensionsDetected
    /\ last.op = "generateEmbedding" /\ last.status = "threw"
    /\ last.reply.type = "response" /\ last.reply.embedding = Arr(<<>>)

-----------------------------------------------------------------------------
(* Properties of generateEmbeddings *)

\* A step in which a generateEmbeddings call that was waiting for a
\* response completes.
BatchCompletes == batch.st = "waiting" /\ batch'.st = "idle"

\* The requests of a sequential batch in flight: one per text, in the order
\* of texts, up to the text being waited for, every earlier one answered.
SentInOrder(b) ==
    b.st = "waiting" =>
        /\ Len(b.sent) \in 1..Len(b.texts)
        /\ \A j \in 1..Len(b.sent) : b.sent[j] = <<b.texts[j]>>
        /\ Len(b.replies) = Len(b.sent) - 1
        /\ Len(b.acc) = Len(b.replies)

\* C13: generateEmbeddings of the Ollama backend sends one request per text
\* in the order of texts, the request for texts[i+1] only once the response
\* for texts[i] has arrived; when the request for texts[k] fails the call
\* throws that failure, returns none of the vectors computed so far and
\* sends no further request.
C13_SequentialBatch ==
    [][ /\ SentInOrder(batch')
        /\ Len(batch'.sent) > Len(batch.sent) =>
              /\ Len(batch'.sent) = Len(batch.sent) + 1
              /\ batch.st = "waiting" => Len(batch'.replies) = Len(batch.replies) + 1
        /\ (BatchCompletes
              /\ OllamaGenerateEmbedding(svc, last'.reply).status = "threw") =>
              /\ last'.status = "threw"
              /\ last'.error = OllamaGenerateEmbedding(svc, last'.reply).error
              /\ last'.vectors = <<>>
              /\ batch'.sent = <<>>
      ]_vars

\* The request for the second text is out and the first response is in.
C13_Witness ==
    /\ batch.st = "waiting" /\ Len(batch.texts) = 2
    /\ batch.sent = <<<<"t1">>, <<"t2">>>>
    /\ Len(batch.replies) = 1

\* The embedding the backend produced for texts[i] of the batch that
\* completes in this step: for Ollama the response to the i-th request, for
\* OpenRouter the item of the response whose index is i - 1 (Missing when
\* the response carries none).
ProducedFor(i) ==
    IF svc.kind = "Ollama"
    THEN Append(batch.replies, last'.reply.embedding)[i]
    ELSE LET items == last'.reply.items
             at    == {j \in 1..Len(items) : items[j].index = i - 1}
         IN  IF at = {} THEN Missing ELSE items[CHOOSE j \in at : TRUE].embedding

\* The vector a backend returns for a produced embedding.
Normalized(embedding) ==
    IF embedding.type # "array" THEN NoVector
    ELSE IF svc.kind = "Ollama" THEN OllamaNormalizeVector(embedding)
    ELSE OpenRouterNormalizeVector(embedding)

\* C12: every generateEmbeddings(texts) call that returns, on either
\* backend, returns exactly Len(texts) vectors, the i-th being the
\* embedding the backend produced for texts[i], however many items the
\* response carries and in whatever order.
C12_BatchOrder ==
    [][ /\ (BatchCompletes /\ last'.status = "returned") =>
              /\ Len(last'.vectors) = Len(batch.texts)
              /\ \A i \in 1..Len(batch.texts) :
                    last'.vectors[i] = Normalized(ProducedFor(i))
        /\ (batch.st = "idle" /\ batch'.st = "idle" /\ calls' = calls
              /\ last' # last) =>
              /\ last'.status = "returned"
              /\ last'.vectors = <<>>
      ]_vars

-----------------------------------------------------------------------------
(* Properties of the error classification *)

\* The class of failure an error message reports.
ErrorClass(error) ==
    CASE error.msg = "OpenRouter API authentication failed - invalid API key"
           -> "AuthenticationError"
      [] error.msg = "OpenRouter API - insufficient credits"
           -> "QuotaExceeded"
      [] error.msg = "OpenRouter API rate limit exceeded - try again later"
           -> "RateLimited"
      [] error.msg = "OpenRouter model not found or not available for embeddings: "
           -> "ModelNotFound"
      [] error.msg = "Ollama model not found: "
           -> "ModelNotFound"
      [] error.msg = "Ollama server not reachable at "
           -> "BackendUnreachable"
      [] error.msg \in {"OpenRouter API error ", "Ollama API error "}
           -> "ProviderError"
      [] error.arg \in InvalidResponse
           -> "InvalidResponse"
      [] error.msg = undefined
           -> "none"
      [] OTHER
           -> "ProviderError"

\* The messages that contain the words "rate limit".
MentionsRateLimit(msg) ==
    msg \in {"OpenRouter API rate limit exceeded - try again later"}

\* C14: generateEmbedding of the OpenRouter backend, its request failing
\* with an HTTP status, throws AuthenticationError for 401, QuotaExceeded
\* for 402, ModelNotFound for 404, RateLimited (its message containing
\* "rate limit") for 429 and, for any other status, a ProviderError that
\* carries the status; it returns no vector.
C14_OpenRouterErrorTable ==
    (last.op = "generateEmbedding" /\ last.reply.type = "axiosError"
       /\ last.reply.status # 0) =>
        /\ last.status = "threw"
        /\ last.vectors = <<>>
        /\ CASE last.reply.status = 401 ->
                   ErrorClass(last.error) = "AuthenticationError"
              [] last.reply.status = 402 ->
                   ErrorClass(last.error) = "QuotaExceeded"
              [] last.reply.status = 404 ->
                   ErrorClass(last.error) = "ModelNotFound"
              [] last.reply.status = 429 ->
                   /\ ErrorClass(last.error) = "RateLimited"
                   /\ MentionsRateLimit(last.error.msg)
              [] OTHER ->
                   /\ ErrorClass(last.error) = "ProviderError"
                   /\ last.error.arg = ToString(last.reply.status)

\* A request was refused with status 429.
C14_Witness ==
    /\ last.op = "generateEmbedding" /\ last.reply.type = "axiosError"
    /\ last.reply.status = 429
    /\ last.status = "threw"
    /\ last.error.msg = "OpenRouter API rate limit exceeded - try again later"

\* The class the fixed table assigns to a transport error.
TableClass(reply) ==
    CASE reply.status = 401 -> "AuthenticationError"
      [] reply.status = 402 -> "QuotaExceeded"
      [] reply.status = 404 -> "ModelNotFound"
      [] reply.status = 429 -> "RateLimited"
      [] reply.code = "ECONNREFUSED" -> "BackendUnreachable"
      [] OTHER -> "ProviderError"

\* The error names the provider and the status or connection code.
Identifies(error, reply) ==
    /\ error.msg \in
          {"OpenRouter API authentication failed - invalid API key",
           "OpenRouter API - insufficient credits",
           "OpenRouter API rate limit exceeded - try again later",
           "OpenRouter model not found or not available for embeddings: ",
           "Ollama model not found: ", "Ollama server not reachable at "}
       \/ error.arg = StatusOrCode(reply.status, reply.code)

\* C15: status 401, 402, 404, 429 and a refused connection are classified
\* by the same table whichever backend and whichever operation meets them,
\* and the failure names the provider and the status or connection code.
C15_UniformClassification ==
    (last.reply.type = "axiosError"
       /\ (last.reply.status \in {401, 402, 404, 429}
             \/ last.reply.code = "ECONNREFUSED")) =>
        /\ last.status = "threw"
        /\ ErrorClass(last.error) = TableClass(last.reply)
        /\ Identifies(last.error, last.reply)

-----------------------------------------------------------------------------
(* Properties of construction (SpecConstruction) *)

\* The record is of a construction of the OpenRouter backend: by its
\* constructor, by createService, or by createFromEnvironment with the
\* explicit provider name (which it reads only with mock mode off).
OpenRouterByConstructor ==
    created.op = "new" /\ created.name = "openrouter"
OpenRouterByRegistry ==
    created.op = "create" /\ created.config.provider = "openrouter"
OpenRouterByEnvironment ==
    created.op = "fromEnvironment" /\ ~MockMode /\ ExplicitName = "openrouter"

\* No API key is available: none in the config, none in the environment.
NoApiKey ==
    /\ ~Truthy(created.config.apiKey)
    /\ ~Present("OPENROUTER_API_KEY")

\* C16: with no API key available, constructing the OpenRouter backend
\* throws on every path (the constructor, createService with provider
\* "openrouter", the explicit provider name "openrouter" in the
\* environment): no instance is returned, the Mock backend included.
C16_MissingApiKeyThrows ==
    (NoApiKey /\ (OpenRouterByConstructor \/ OpenRouterByRegistry
                    \/ OpenRouterByEnvironment)) =>
        /\ created.status = "threw"
        /\ created.error # undefined
        /\ created.service = NoService

\* createService({ provider: "openrouter" }) with no key anywhere and the
\* Ollama URL set.
C16_Witness ==
    /\ OpenRouterByRegistry /\ NoApiKey
    /\ Present("OLLAMA_BASE_URL")
    /\ created.status = "threw"

\* explicit config value > environment variable > hard-coded default
Precedence(explicit, variable, default) ==
    IF Truthy(explicit) THEN explicit
    ELSE IF Truthy(env[variable]) THEN env[variable]
    ELSE default

\* The fields the claim expects of an instance built from config: each
\* resolved on its own (a base URL is compared without its trailing slash).
ExpectedOpenRouter(config) ==
    [apiKey   |-> Precedence(config.apiKey, "OPENROUTER_API_KEY", ""),
     model    |-> Precedence(config.model, "OPENROUTER_EMBEDDING_MODEL",
                             "openai/text-embedding-3-small"),
     siteUrl  |-> Precedence(config.siteUrl, "OPENROUTER_SITE_URL", ""),
     siteName |-> Precedence(config.siteName, "OPENROUTER_SITE_NAME", "memento-mcp")]
ExpectedOllama(config) ==
    [baseUrl |-> StripTrailingSlash(
                     Precedence(config.baseUrl, "OLLAMA_BASE_URL",
                                "http://localhost:11434")),
     model   |-> Precedence(config.model, "OLLAMA_EMBEDDING_MODEL",
                            "nomic-embed-text")]

\* C17: on every construction path, createService included, each field with
\* an environment equivalent (API key, model, base URL, site URL, site
\* name) resolves to the config value if set, else the environment variable
\* if set, else the default, independently of the other fields.
C17_ConfigPrecedence ==
    /\ (created.op \in {"new", "create"} /\ created.config.provider = "ollama") =>
          /\ created.status = "returned"
          /\ created.service.baseUrl = ExpectedOllama(created.config).baseUrl
          /\ created.service.model = ExpectedOllama(created.config).model
    /\ (created.op \in {"new", "create"} /\ created.config.provider = "openrouter"
          /\ ExpectedOpenRouter(created.config).apiKey # "") =>
          /\ created.status = "returned"
          /\ created.service.apiKey = ExpectedOpenRouter(created.config).apiKey
          /\ created.service.model = ExpectedOpenRouter(created.config).model
          /\ created.service.siteUrl = ExpectedOpenRouter(created.config).siteUrl
          /\ created.service.siteName = ExpectedOpenRouter(created.config).siteName
    /\ (created.op = "fromEnvironment" /\ created.service.kind = "Ollama") =>
          /\ created.service.baseUrl = ExpectedOllama(EmptyConfig).baseUrl
          /\ created.service.model = ExpectedOllama(EmptyConfig).model
    /\ (created.op = "fromEnvironment" /\ created.service.kind = "OpenRouter") =>
          /\ created.service.apiKey = ExpectedOpenRouter(EmptyConfig).apiKey
          /\ created.service.model = ExpectedOpenRouter(EmptyConfig).model
          /\ created.service.siteUrl = ExpectedOpenRouter(EmptyConfig).siteUrl
          /\ created.service.siteName = ExpectedOpenRouter(EmptyConfig).siteName

-----------------------------------------------------------------------------
(* Properties of concurrent calls (SpecOllama) *)

\* The fields of an instance other than dimensions and the detected flag.
OtherFields(s) == [s EXCEPT !.dimensions = 0, !.dimensionsDetected = FALSE]

\* Every generateEmbedding call made on the instance has completed, and
\* none has failed.
AllCompleted ==
    /\ calls = NoCalls /\ batch.st = "idle"
    /\ hist.firstLen # 0 /\ ~hist.failed

-----------------------------------------------------------------------------
(* Normalization of the returned vectors *)

\* The embeddings whose normalized vectors end the vectors of a completed
\* call, in order: the one a generateEmbedding call read, or every item of
\* the response a batch request got.
ReturnedFrom(l) ==
    IF l.reply.type # "response" THEN <<>>
    ELSE IF svc.kind = "Ollama" THEN <<l.reply.embedding>>
    ELSE IF l.op = "generateEmbedding" THEN <<l.reply.items[1].embedding>>
    ELSE [j \in 1..Len(l.reply.items) |-> l.reply.items[j].embedding]

\* [1, 0, ..., 0] of length n.
UnitFirst(n) == [i \in 1..n |-> IF i = 1 THEN 1 ELSE 0]

AllZero(embedding) ==
    /\ embedding.type = "array"
    /\ Len(embedding.vec) >= 1
    /\ embedding.vec = Zero(Len(embedding.vec))

\* C19: a vector of N >= 1 elements, all zero, is returned by either
\* backend as [1, 0, ..., 0] of the same length N.
C19_ZeroVectorBecomesUnitFirst ==
    last.status = "returned" =>
        LET sources == ReturnedFrom(last)
            offset  == Len(last.vectors) - Len(sources)
        IN  \A j \in 1..Len(sources) :
                AllZero(sources[j]) =>
                    last.vectors[offset + j] =
                        [num |-> UnitFirst(Len(sources[j].vec)), den2 |-> 1]

\* A generateEmbedding call answered with the all-zero vector of the
\* greatest length has returned.
C19_Witness ==
    /\ last.op = "generateEmbedding" /\ last.status = "returned"
    /\ ReturnedFrom(last) = <<Arr(Zero(MaxLen))>>
    /\ last.vectors = <<[num |-> UnitFirst(MaxLen), den2 |-> 1]>>

\* Norm 1 within 1e-6.  The squared norm of a returned vector is
\* SumSq(num) / den2, a ratio of integers under 2^10: it is 1, or it is
\* further from 1 than 1e-3.
UnitNorm(v) == SumSq(v.num) = v.den2

\* C20: every vector generateEmbedding or generateEmbeddings returns that
\* has a nonzero element has norm 1 within 1e-6, whatever the magnitude of
\* the vector in the response.
C20_ReturnedVectorsAreUnitNorm ==
    last.status = "returned" =>
        \A j \in 1..Len(last.vectors) :
            (\E i \in 1..Len(last.vectors[j].num) : last.vectors[j].num[i] # 0)
                => UnitNorm(last.vectors[j])

-----------------------------------------------------------------------------
(* Validation of batch responses (SpecOpenRouter) *)

\* An item whose vector is missing, not an array, or empty.
InvalidItem(item) ==
    item.embedding.type # "array" \/ Len(item.embedding.vec) = 0

\* C21: generateEmbeddings of the OpenRouter backend, answered with a
\* response in which some item's vector is missing, not an array or empty,
\* throws an invalid-response error and returns no sequence; it never
\* returns a vector of another length than the item carried.
C21_BatchResponseValidated ==
    (/\ last.op = "generateEmbeddings"
     /\ last.reply.type = "response" /\ last.reply.data
     /\ \E j \in 1..Len(last.reply.items) : InvalidItem(last.reply.items[j]))
        => /\ last.status = "threw"
           /\ last.error.msg \in InvalidResponse
           /\ last.vectors = <<>>

-----------------------------------------------------------------------------
(* Requests per call (SpecBackends) *)

\* C22: a generateEmbedding call of either backend completes, returning or
\* throwing, having sent exactly one request; generateEmbeddings of the
\* OpenRouter backend completes having sent one request, whatever the
\* number of texts; generateEmbeddings of the Ollama backend that returns
\* has sent one request per text.
C22_RequestsPerCall ==
    [][ /\ SingleCallCompletes => last'.requests = 1
        /\ (BatchCompletes /\ svc.kind = "OpenRouter") => last'.requests = 1
        /\ (BatchCompletes /\ svc.kind = "Ollama" /\ last'.status = "returned")
              => last'.requests = Len(batch.texts)
        /\ (svc.kind = "Ollama" /\ last'.op = "generateEmbeddings"
              /\ last'.status = "returned")
              => last'.requests = Len(last'.vectors)
      ]_vars

\* A generateEmbedding call has failed on a transport error after its one
\* request.
C22_Witness ==
    /\ last.op = "generateEmbedding" /\ last.status = "threw"
    /\ last.reply.type = "axiosError"
    /\ last.requests = 1
    /\ calls = NoCalls

-----------------------------------------------------------------------------
(* Unknown explicit provider names (SpecResolver) *)

\* The names _createExplicitProvider has a case for.
KnownNames == {"ollama", "openrouter", "openai", "default", "mock"}

\* EMBEDDING_PROVIDER holds a name, and in lower case it is none of the
\* known ones.
UnknownName == Explicit /\ ExplicitName \notin KnownNames

\* C23: with mock mode off and the explicit provider name set to a name
\* that is, in lower case, none of ollama, openrouter, openai, default and
\* mock, createFromEnvironment returns the Mock backend and throws nothing,
\* whichever of the URL and the two keys is present; it runs no other
\* constructor.
C23_UnknownNameYieldsMock ==
    (Called /\ ~MockMode /\ UnknownName) =>
        /\ outcome.status = "returned"
        /\ outcome.service.kind = "Default"
        /\ outcome.attempts = <<"Default">>

\* The name "Custom" with mock mode off, every candidate present and every
\* other constructor failing.
C23_Witness ==
    /\ Called /\ ~MockMode /\ env["EMBEDDING_PROVIDER"] = "Custom"
    /\ Present("OLLAMA_BASE_URL") /\ Present("OPENROUTER_API_KEY")
    /\ Present("OPENAI_API_KEY")
    /\ outcome.fails = Kinds
    /\ outcome.status = "returned" /\ outcome.service.kind = "Default"

-----------------------------------------------------------------------------
(* createFromEnvironment and the registry (SpecEnvironmentRegistry) *)

\* A step that is a createFromEnvironment call.
EnvironmentCall == outcome'.status # "none" /\ env' = env /\ created' = created

\* The constructors createFromEnvironment runs itself.
BuiltinClasses == {"Ollama", "OpenRouter", "OpenAI", "Default"}

=============================================================================
